---- MODULE Spec2Model ----
(***************************************************************************)
(* Model of main.py: a Streamlit page that keeps a Gemini API key in the   *)
(* session, lets the user upload a plant image and, on "Analyze Plant",    *)
(* calls analyze_plant_disease, which issues one HTTP POST and turns the   *)
(* provider's answer into {"success": True, "analysis": ...} or            *)
(* {"success": False, "error": ...}.                                       *)
(***************************************************************************)
EXTENDS Integers, Sequences, FiniteSets, TLC

(***************************************************************************)
(* Bounds of the model.                                                    *)
(***************************************************************************)
\* a JSON list on the text path carries up to MaxExtra further elements
MaxExtra == 1
\* uploaded images carry 1..MaxBytes saved bytes
MaxBytes == 2

(***************************************************************************)
(* Python values decoded from JSON.  A str is a sequence of one-character  *)
(* strings so that it can be subscripted as Python subscripts it.          *)
(***************************************************************************)
JNull == [t |-> "null"]
JNum(n) == [t |-> "num", n |-> n]
JStr(s) == [t |-> "str", s |-> s]
JList(l) == [t |-> "list", l |-> l]
JDict(d) == [t |-> "dict", d |-> d]

Key(k) == [key |-> k]
Idx(i) == [idx |-> i]
IsKey(step) == "key" \in DOMAIN step

\* str(e) of the KeyError raised for a missing key
KeyErrorStr(step) == IF IsKey(step) THEN "'" \o step.key \o "'" ELSE ToString(step.idx)

Ok(v) == [ok |-> TRUE, val |-> v]
Raise(exc, detail) == [ok |-> FALSE, exc |-> exc, detail |-> detail]

\* x[step] as Python evaluates it: the value, or the exception raised
GetItem(x, step) ==
    CASE x.t = "dict" ->
            IF IsKey(step) /\ step.key \in DOMAIN x.d
            THEN Ok(x.d[step.key])
            ELSE Raise("KeyError", KeyErrorStr(step))
      [] x.t = "list" ->
            IF IsKey(step)
            THEN Raise("TypeError", "list indices must be integers or slices, not str")
            ELSE IF step.idx < Len(x.l)
                 THEN Ok(x.l[step.idx + 1])
                 ELSE Raise("IndexError", "list index out of range")
      [] x.t = "str" ->
            IF IsKey(step)
            THEN Raise("TypeError", "string indices must be integers")
            ELSE IF step.idx < Len(x.s)
                 THEN Ok(JStr(<<x.s[step.idx + 1]>>))
                 ELSE Raise("IndexError", "string index out of range")
      [] OTHER -> Raise("TypeError", "object is not subscriptable")

\* a slip: the second candidate is read instead of the first
TextPath_secondCandidate ==
    <<Key("candidates"), Idx(1), Key("content"), Key("parts"), Idx(0), Key("text")>>

\* result["candidates"][0]["content"]["parts"][0]["text"]
TextPath == <<Key("candidates"), Idx(0), Key("content"), Key("parts"), Idx(0), Key("text")>>

RECURSIVE Subscript(_, _)
Subscript(x, path) ==
    IF path = <<>> THEN Ok(x)
    ELSE LET r == GetItem(x, Head(path))
         IN  IF r.ok THEN Subscript(r.val, Tail(path)) ELSE r

(***************************************************************************)
(* The provider's answers.  A body is a JSON document or raw text; the     *)
(* documents follow the text path and leave it at every level in every     *)
(* way Python distinguishes.                                               *)
(***************************************************************************)
Deviants ==
    { JNull, JNum(7), JStr(<<>>), JStr(<<"x">>), JList(<<>>), JDict(<<>>),
      JList(<<JNull>>), JDict("other" :> JNull) }

Leaves == { JStr(<<"o", "k">>), JStr(<<>>), JNum(7) }

Filler == JDict("text" :> JStr(<<"z">>))

Container(step, child, n) ==
    IF IsKey(step) THEN JDict(step.key :> child)
    ELSE JList(<<child>> \o [i \in 1..n |-> Filler])

RECURSIVE Values(_)
Values(i) ==
    IF i > Len(TextPath) THEN Leaves
    ELSE Deviants \cup
         { Container(TextPath[i], c, n) :
             c \in Values(i + 1),
             n \in IF IsKey(TextPath[i]) THEN {0} ELSE 0..MaxExtra }

Documents == Values(1)

RawBodies == { "invalid key", "" }

Bodies == { [json |-> TRUE, doc |-> d] : d \in Documents }
          \cup { [json |-> FALSE, raw |-> r] : r \in RawBodies }

Statuses == { 200, 201, 204, 403, 500 }

Responses == { [status |-> s, body |-> b] : s \in Statuses, b \in Bodies }

\* requests.exceptions.RequestException subclasses raised by requests.post
Faults ==
    { [exc |-> "ConnectTimeout", detail |-> "timed out"],
      [exc |-> "ReadTimeout", detail |-> "Read timed out. (read timeout=30)"],
      [exc |-> "ConnectionError", detail |-> "Name or service not known"],
      [exc |-> "ConnectionError", detail |-> "Connection reset by peer"] }

RECURSIVE JoinChars(_)
JoinChars(s) == IF s = <<>> THEN "" ELSE Head(s) \o JoinChars(Tail(s))

RECURSIVE Dumps(_)
RECURSIVE DumpsList(_)
RECURSIVE DumpsDict(_, _)
\* the text of a JSON document
Dumps(v) ==
    CASE v.t = "null" -> "null"
      [] v.t = "num" -> ToString(v.n)
      [] v.t = "str" -> "\"" \o JoinChars(v.s) \o "\""
      [] v.t = "list" -> "[" \o DumpsList(v.l) \o "]"
      [] v.t = "dict" -> "{" \o DumpsDict(v.d, DOMAIN v.d) \o "}"
DumpsList(l) ==
    IF l = <<>> THEN ""
    ELSE Dumps(Head(l)) \o (IF Len(l) > 1 THEN ", " ELSE "") \o DumpsList(Tail(l))
DumpsDict(d, keys) ==
    IF keys = {} THEN ""
    ELSE LET k == CHOOSE x \in keys : TRUE
         IN  "\"" \o k \o "\": " \o Dumps(d[k])
             \o (IF keys = {k} THEN "" ELSE ", ") \o DumpsDict(d, keys \ {k})

\* response.text
ResponseText(body) == IF body.json THEN Dumps(body.doc) ELSE body.raw

(***************************************************************************)
(* Images.  An uploaded file is the format PIL detects and the bytes       *)
(* image.save writes for it.                                               *)
(***************************************************************************)
ByteValues == { 0, 255 }

ByteSeqs == UNION { [1..n -> ByteValues] : n \in 1..MaxBytes }

NoFile == [format |-> "none", saved |-> <<>>]

Files == { [format |-> f, saved |-> b] : f \in {"JPEG", "PNG"}, b \in ByteSeqs }

B64Alphabet ==
    << "A","B","C","D","E","F","G","H","I","J","K","L","M","N","O","P",
       "Q","R","S","T","U","V","W","X","Y","Z","a","b","c","d","e","f",
       "g","h","i","j","k","l","m","n","o","p","q","r","s","t","u","v",
       "w","x","y","z","0","1","2","3","4","5","6","7","8","9","+","/" >>

B64Char(n) == B64Alphabet[n + 1]

RECURSIVE b64encode(_)
\* base64.b64encode(b).decode('utf-8')
b64encode(b) ==
    CASE Len(b) = 0 -> ""
      [] Len(b) = 1 ->
            B64Char(b[1] \div 4) \o B64Char((b[1] % 4) * 16) \o "=="
      [] Len(b) = 2 ->
            B64Char(b[1] \div 4) \o B64Char((b[1] % 4) * 16 + b[2] \div 16)
            \o B64Char((b[2] % 16) * 4) \o "="
      [] OTHER ->
            B64Char(b[1] \div 4) \o B64Char((b[1] % 4) * 16 + b[2] \div 16)
            \o B64Char((b[2] % 16) * 4 + b[3] \div 64) \o B64Char(b[3] % 64)
            \o b64encode(SubSeq(b, 4, Len(b)))

ImageData == { b64encode(f.saved) : f \in Files }

(***************************************************************************)
(* analyze_plant_disease                                                   *)
(***************************************************************************)
GEMINI_API_URL ==
    "https://generativelanguage.googleapis.com/v1beta/models/gemini-1.5-flash:generateContent"

Prompt == "Analyze this plant image and provide the following information: ..."

Success(analysis) == [success |-> TRUE, analysis |-> analysis]
Failure(error) == [success |-> FALSE, error |-> error]

NoResult == [kind |-> "none"]
Returned(r) == [kind |-> "return", value |-> r]
Raised(exc, detail) == [kind |-> "raise", exc |-> exc, detail |-> detail]

\* a slip: the key check is dropped
MissingCredential_never(key) == FALSE

\* if not st.session_state.api_key
MissingCredential(key) == key = ""

NoKeyError ==
    <<"No Gemini API key provided. Please enter your API key in the sidebar.">>

Payload(image_data) ==
    [contents |->
        << [parts |->
              << [text |-> Prompt],
                 [inline_data |-> [mime_type |-> "image/jpeg", data |-> image_data]] >>] >>,
     generationConfig |->
        [temperature |-> "0.2", topK |-> 40, topP |-> "0.95", maxOutputTokens |-> 1024]]

Headers(key) == [ContentType |-> "application/json", xGoogApiKey |-> key]

\* a slip: the query parameter is left empty
Url_noKey(key) == <<GEMINI_API_URL, "?key=", "">>

\* f"{GEMINI_API_URL}?key={st.session_state.api_key}"
Url(key) == <<GEMINI_API_URL, "?key=", key>>

PostRequest(key, image_data) ==
    [url |-> Url(key), headers |-> Headers(key), json |-> Payload(image_data),
     timeout |-> 30]

\* a slip: the request is sent again
SendPost_retry(issued, req) == Append(Append(issued, req), req)

\* requests.post is called once; the request joins those issued by this call
SendPost(issued, req) == Append(issued, req)

\* a slip: every 2xx status is taken as a success
StatusOK_any2xx(status) == status \in 200..299

\* if response.status_code == 200
StatusOK(status) == status = 200

\* except (KeyError, IndexError) as e
ParseErrors == { "KeyError", "IndexError" }

ParseErrorMessage(detail) == <<"Failed to parse Gemini response: ", detail>>

\* the inner try: the text path of the decoded document
ExtractAnalysis(doc) ==
    LET r == Subscript(doc, TextPath)
    IN  IF r.ok THEN Returned(Success(r.val))
        ELSE IF r.exc \in ParseErrors
             THEN Returned(Failure(ParseErrorMessage(r.detail)))
             ELSE Raised(r.exc, r.detail)

\* response.json(): a body that is not JSON raises
\* requests.exceptions.JSONDecodeError, a RequestException
ResponseJson(body) ==
    IF body.json THEN Ok(body.doc)
    ELSE Raise("JSONDecodeError", "Expecting value: line 1 column 1 (char 0)")

\* a slip: the body is left out of the message
ApiErrorMessage_noBody(status, text) == <<"Gemini API error: ", ToString(status)>>

ApiErrorMessage(status, text) == <<"Gemini API error: ", ToString(status), " - ", text>>

\* the body of the outer try once requests.post has returned
ProcessResponse(resp) ==
    IF StatusOK(resp.status)
    THEN LET j == ResponseJson(resp.body)
         IN  IF j.ok THEN ExtractAnalysis(j.val) ELSE Raised(j.exc, j.detail)
    ELSE Returned(Failure(ApiErrorMessage(resp.status, ResponseText(resp.body))))

RequestExceptions ==
    { "ConnectTimeout", "ReadTimeout", "ConnectionError", "JSONDecodeError" }

\* a slip: only requests.exceptions.ConnectionError is caught
IsRequestException_connectionOnly(exc) == exc = "ConnectionError"

\* except requests.exceptions.RequestException as e
IsRequestException(exc) == exc \in RequestExceptions

RequestErrorMessage(detail) == <<"Request error: ", detail>>

OuterTry(outcome) ==
    IF outcome.kind = "raise" /\ IsRequestException(outcome.exc)
    THEN Returned(Failure(RequestErrorMessage(outcome.detail)))
    ELSE outcome

NoResponse == [kind |-> "none"]
HttpResponse(resp) == [kind |-> "http", status |-> resp.status, body |-> resp.body]
FaultResponse(f) == [kind |-> "fault", exc |-> f.exc, detail |-> f.detail]

(***************************************************************************)
(* The page.  Streamlit reruns the whole script on every interaction.      *)
(***************************************************************************)
VARIABLES
    api_key,         \* st.session_state.api_key
    key_field,       \* the text the sidebar password field holds
    uploaded_file,   \* the file the uploader holds, or NoFile
    uploader_shown,  \* the last run rendered the file uploader
    button_shown,    \* the last run rendered the "Analyze Plant" button
    pc,              \* "idle", or "posting" while requests.post blocks
    posts,           \* the requests issued by the analyze call of this run
    response,        \* what requests.post gave that call
    result,          \* how that call ended
    display          \* what the main area of the page shows

vars == <<api_key, key_field, uploaded_file, uploader_shown, button_shown,
          pc, posts, response, result, display>>

Keys == { "", "k1", "k2" }

\* if 'api_key' not in st.session_state: st.session_state.api_key = ""
SessionInit == ""

\* a slip: the field is stored even when it is empty
SidebarUpdate_unconditional(key, user_api_key) == user_api_key

\* if user_api_key: st.session_state.api_key = user_api_key
SidebarUpdate(key, user_api_key) == IF user_api_key # "" THEN user_api_key ELSE key

\* if not st.session_state.api_key: st.warning(...)
ShowWarning(key) == key = ""

Show(el) == [el |-> el]

\* if result["success"]: ... else: st.error(...); an uncaught exception ends
\* the run and Streamlit shows it in place of the result
Render(outcome) ==
    IF outcome.kind = "raise" THEN [el |-> "exception", text |-> outcome.exc]
    ELSE IF outcome.value.success
         THEN [el |-> "success", text |-> outcome.value.analysis]
         ELSE [el |-> "error", text |-> <<"Error: ">> \o outcome.value.error]

Init ==
    /\ api_key = SessionInit
    /\ key_field = SessionInit
    /\ uploaded_file = NoFile
    /\ uploader_shown = FALSE
    /\ button_shown = FALSE
    /\ pc = "idle"
    /\ posts = <<>>
    /\ response = NoResponse
    /\ result = NoResult
    /\ display = Show("warning")

\* the entry of analyze_plant_disease up to and including requests.post
AnalyzeCall(key, image_data) ==
    /\ response' = NoResponse
    /\ IF MissingCredential(key)
       THEN /\ posts' = <<>>
            /\ result' = Returned(Failure(NoKeyError))
            /\ pc' = "idle"
       ELSE /\ posts' = SendPost(<<>>, PostRequest(key, image_data))
            /\ result' = NoResult
            /\ pc' = "posting"

\* one run of the script: the sidebar, then the main area
ScriptRun(field, file, pressed) ==
    LET key == SidebarUpdate(api_key, field)
    IN  /\ api_key' = key
        /\ key_field' = field
        /\ uploaded_file' = file
        /\ IF ShowWarning(key)
           THEN /\ uploader_shown' = FALSE
                /\ button_shown' = FALSE
                /\ display' = Show("warning")
                /\ pc' = "idle"
                /\ posts' = <<>>
                /\ response' = NoResponse
                /\ result' = NoResult
           ELSE /\ uploader_shown' = TRUE
                /\ button_shown' = (file # NoFile)
                /\ IF file # NoFile /\ pressed
                   THEN /\ AnalyzeCall(key, b64encode(file.saved))
                        /\ display' = IF pc' = "posting" THEN Show("spinner")
                                      ELSE Render(result')
                   ELSE /\ display' = IF file = NoFile THEN Show("uploader")
                                      ELSE Show("image")
                        /\ pc' = "idle"
                        /\ posts' = <<>>
                        /\ response' = NoResponse
                        /\ result' = NoResult

\* the user submits the sidebar key field
EnterKey ==
    /\ pc = "idle"
    /\ \E k \in Keys : k # key_field /\ ScriptRun(k, uploaded_file, FALSE)

\* the user picks another file in the uploader, or removes the one it holds
Upload ==
    /\ pc = "idle"
    /\ uploader_shown
    /\ \E f \in Files \cup {NoFile} :
          f # uploaded_file /\ ScriptRun(key_field, f, FALSE)

\* the user presses "Analyze Plant"
PressAnalyze ==
    /\ pc = "idle"
    /\ button_shown
    /\ ScriptRun(key_field, uploaded_file, TRUE)

\* requests.post returns a response; the call and the run finish
Respond ==
    /\ pc = "posting"
    /\ \E resp \in Responses :
          /\ response' = HttpResponse(resp)
          /\ result' = OuterTry(ProcessResponse(resp))
    /\ display' = Render(result')
    /\ pc' = "idle"
    /\ UNCHANGED <<api_key, key_field, uploaded_file, uploader_shown, button_shown, posts>>

\* requests.post raises; the call and the run finish
Fault ==
    /\ pc = "posting"
    /\ \E f \in Faults :
          /\ response' = FaultResponse(f)
          /\ result' = OuterTry(Raised(f.exc, f.detail))
    /\ display' = Render(result')
    /\ pc' = "idle"
    /\ UNCHANGED <<api_key, key_field, uploaded_file, uploader_shown, button_shown, posts>>

Next == EnterKey \/ Upload \/ PressAnalyze \/ Respond \/ Fault

Spec == Init /\ [][Next]_vars

(***************************************************************************)
(* analyze_plant_disease called on its own, in any session.                *)
(***************************************************************************)
\* the caller's session holds any key, empty included
SetSession ==
    /\ pc = "idle"
    /\ \E k \in Keys : k # api_key /\ api_key' = k
    /\ pc' = "idle"
    /\ posts' = <<>>
    /\ response' = NoResponse
    /\ result' = NoResult
    /\ UNCHANGED <<key_field, uploaded_file, uploader_shown, button_shown, display>>

CallAnalyze ==
    /\ pc = "idle"
    /\ \E d \in ImageData : AnalyzeCall(api_key, d)
    /\ UNCHANGED <<api_key, key_field, uploaded_file, uploader_shown, button_shown, display>>

ReturnResponse ==
    /\ pc = "posting"
    /\ \E resp \in Responses :
          /\ response' = HttpResponse(resp)
          /\ result' = OuterTry(ProcessResponse(resp))
    /\ pc' = "idle"
    /\ UNCHANGED <<api_key, key_field, uploaded_file, uploader_shown, button_shown,
                   posts, display>>

ReturnFault ==
    /\ pc = "posting"
    /\ \E f \in Faults :
          /\ response' = FaultResponse(f)
          /\ result' = OuterTry(Raised(f.exc, f.detail))
    /\ pc' = "idle"
    /\ UNCHANGED <<api_key, key_field, uploaded_file, uploader_shown, button_shown,
                   posts, display>>

CallNext == SetSession \/ CallAnalyze \/ ReturnResponse \/ ReturnFault

CallSpec == Init /\ [][CallNext]_vars

(***************************************************************************)
(* Vocabulary of the properties.                                           *)
(***************************************************************************)
\* the analyze call of this run got an answer from requests.post and ended
Done == pc = "idle" /\ response.kind # "none"

GotHttp == Done /\ response.kind = "http"

IsFailure == result.kind = "return" /\ ~result.value.success

IsSuccess == result.kind = "return" /\ result.value.success

IsMissingCredential == IsFailure /\ result.value.error = NoKeyError

IsApiError == IsFailure /\ result.value.error[1] = "Gemini API error: "

IsParseFailure == IsFailure /\ result.value.error[1] = "Failed to parse Gemini response: "

IsRequestError == IsFailure /\ result.value.error[1] = "Request error: "

Contains(tokens, s) == \E i \in 1..Len(tokens) : tokens[i] = s

\* the document has a list of candidates whose first element has a content
\* object whose parts list starts with an object that has a text member
WellFormedText(doc) ==
    /\ doc.t = "dict" /\ "candidates" \in DOMAIN doc.d
    /\ LET cs == doc.d["candidates"]
       IN  /\ cs.t = "list" /\ Len(cs.l) >= 1
           /\ cs.l[1].t = "dict" /\ "content" \in DOMAIN cs.l[1].d
           /\ LET ct == cs.l[1].d["content"]
              IN  /\ ct.t = "dict" /\ "parts" \in DOMAIN ct.d
                  /\ LET ps == ct.d["parts"]
                     IN  /\ ps.t = "list" /\ Len(ps.l) >= 1
                         /\ ps.l[1].t = "dict" /\ "text" \in DOMAIN ps.l[1].d

TextOf(doc) == doc.d["candidates"].l[1].d["content"].d["parts"].l[1].d["text"]

HasText(body) == body.json /\ WellFormedText(body.doc)

(***************************************************************************)
(* Properties.                                                             *)
(***************************************************************************)
\* C1: when the session key is empty at call time, analyze_plant_disease
\* returns a failure and issues no HTTP request (checked under CallSpec)
C1_EmptyCredentialNoRequest ==
    api_key = "" =>
        /\ pc = "idle"
        /\ posts = <<>>
        /\ response.kind = "none"
        /\ result.kind # "none" => IsFailure

C1_Witness == api_key = "" /\ IsMissingCredential /\ posts = <<>>

\* C2: every 200 response whose text path is absent or malformed in any way
\* (a non-JSON body included) ends in a "Failed to parse" failure
C2_MalformedAlwaysParseFailure ==
    (GotHttp /\ response.status = 200 /\ ~HasText(response.body)) => IsParseFailure

\* C3: every call ends by returning a success or a failure dictionary; no
\* exception leaves analyze_plant_disease
C3_NoUncaughtException == result.kind # "raise"

\* C4 as stated: "API error" exactly for the non-2xx statuses, and every 2xx
\* response whose JSON lacks the text path is a parse failure (the documents
\* on which the call raises, see C2 and C3, are left aside)
C4_Boundary2xx ==
    GotHttp =>
        /\ IsApiError <=> response.status \notin 200..299
        /\ (response.status \in 200..299 /\ response.body.json
                /\ ~WellFormedText(response.body.doc) /\ result.kind = "return")
           => IsParseFailure

\* C4 amended: "API error" is returned exactly when the status is not 200,
\* so 201, 204 and every other 2xx code are API errors too, and a parse
\* failure is reported only for status 200
C4_Boundary200 ==
    GotHttp =>
        /\ IsApiError <=> response.status # 200
        /\ IsParseFailure => response.status = 200

C4_Witness ==
    /\ GotHttp /\ response.status = 201
    /\ response.body.json /\ response.body.doc = JDict(<<>>)
    /\ IsApiError

\* C5: a 200 response with a well-formed candidates[0].content.parts[0].text
\* yields a success carrying exactly that value, further candidates and
\* parts being ignored
C5_SuccessCarriesText ==
    (GotHttp /\ response.status = 200 /\ HasText(response.body)) =>
        /\ IsSuccess
        /\ result.value.analysis = TextOf(response.body.doc)

C5_Witness ==
    /\ GotHttp /\ response.status = 200 /\ HasText(response.body)
    /\ Len(response.body.doc.d["candidates"].l) > 1
    /\ IsSuccess
    /\ result.value.analysis = JStr(<<"o", "k">>)

\* C6: every response whose status is not 200 yields the failure
\* "Gemini API error: <status> - <body>" holding the status code and the raw
\* body, never a success
C6_NonOkIsApiError ==
    (GotHttp /\ response.status # 200) =>
        /\ IsApiError
        /\ Len(result.value.error) = 4
        /\ result.value.error[3] = " - "
        /\ Contains(result.value.error, ToString(response.status))
        /\ Contains(result.value.error, ResponseText(response.body))

C6_Witness ==
    /\ GotHttp /\ response.status = 403
    /\ IsFailure
    /\ result.value.error = <<"Gemini API error: ", "403", " - ", "invalid key">>

\* C7: a call that passes the credential check issues exactly one POST,
\* whatever the outcome, and a call that does not pass it issues none
C7_ExactlyOnePost ==
    /\ (pc = "posting" \/ response.kind # "none") => Len(posts) = 1
    /\ (pc = "idle" /\ response.kind = "none") => posts = <<>>

C7_Witness ==
    /\ Done /\ response.kind = "fault" /\ response.exc = "ReadTimeout"
    /\ Len(posts) = 1

\* C8: every network fault of the POST yields the failure
\* "Request error: <detail>" with the fault's description
C8_FaultIsRequestError ==
    (Done /\ response.kind = "fault") =>
        /\ IsRequestError
        /\ result.value.error = <<"Request error: ", response.detail>>

C8_Witness ==
    /\ Done /\ response.kind = "fault" /\ response.exc = "ConnectTimeout"
    /\ IsRequestError

\* C9: the session key changes only in a run where the user submitted a new
\* non-empty value in the sidebar field; no analyze call changes it, and the
\* key of the session is the one in both the header and the query parameter
C9_CredentialFrame ==
    /\ [](\A i \in 1..Len(posts) :
             /\ posts[i].headers.xGoogApiKey = api_key
             /\ posts[i].url = <<GEMINI_API_URL, "?key=", api_key>>)
    /\ [][api_key' # api_key =>
             /\ pc = "idle"
             /\ key_field' # key_field
             /\ key_field' # ""
             /\ api_key' = key_field']_vars
    /\ [][(pc = "posting" \/ pc' = "posting") => api_key' = api_key]_vars

C9_Witness ==
    /\ Done /\ IsFailure
    /\ api_key = "k2" /\ key_field = ""
    /\ posts[1].headers.xGoogApiKey = "k2"

\* C10: the page calls analyze_plant_disease only with a non-empty session
\* key, and a stored key is never reset to empty, so the missing-key failure
\* never shows through the page
C10_MissingCredentialUnreachable ==
    /\ [](/\ ~IsMissingCredential
          /\ (uploader_shown \/ button_shown \/ pc = "posting") => api_key # "")
    /\ [][api_key # "" => api_key' # ""]_vars

C10_Witness == pc = "posting" /\ key_field = "" /\ api_key # ""

====
